---------------------------- MODULE Spec2Model ----------------------------
(***************************************************************************)
(* The Farrington-Manning test of src/farrington_manning.py as a state     *)
(* machine: one call of farrington_manning, executed statement by          *)
(* statement, over every input of a bounded set.                           *)
(*                                                                         *)
(* Numbers.  A Python float is modelled as a record [k, v]:                *)
(*   k = "num"  a finite number, v its value as an integer count of units, *)
(*   k = "nan"  NaN,   k = "inf"  an infinity of sign v,                   *)
(*   k = "unset" a local that has not been assigned yet.                   *)
(* Proportions, deltas and root-finder candidates are counted in units of  *)
(* 1/Grid (they are exact: every group length divides Grid); standard      *)
(* errors, z, probabilities and alpha are counted in units of 1/Fix,       *)
(* rounded to nearest.  A raised exception is a record whose k is the      *)
(* exception's type.                                                       *)
(***************************************************************************)
EXTENDS Integers, Sequences, FiniteSets, TLC

\* Longest group.
MaxN == 2

\* Units per 1.0 of the exact quantities (p1_ml, p2_ml, diff_ml, delta).
Grid == 12
\* Units per 1.0 of the rounded quantities (sd, z, p_value, alpha).
Fix == 1200
GridToFix == Fix \div Grid

\* math.pi, in units of 1/Fix.
Pi == 3770
\* The bracket padding 1e-6 of the two brentq calls.  It is far below every
\* other distance the brackets involve, so it is one step of the candidate
\* grid, the smallest distance the model resolves.
Eps == 1

--------------------------------------------------------------------------
(* Floats *)

Num(x) == [k |-> "num", v |-> x]
NaN == [k |-> "nan", v |-> 0]
Inf(s) == [k |-> "inf", v |-> s]
Unset == [k |-> "unset", v |-> 0]
Raise(e) == [k |-> e, v |-> 0]

IsNum(x) == x.k = "num"
IsNaN(x) == x.k = "nan"
IsInf(x) == x.k = "inf"
IsRaise(x) == x.k \in {"ValueError", "ZeroDivisionError"}

Abs(x) == IF x < 0 THEN -x ELSE x
Sign(x) == IF x > 0 THEN 1 ELSE IF x < 0 THEN -1 ELSE 0

\* a / b rounded to the nearest integer, b > 0.
RDiv(a, b) == (2 * a + b) \div (2 * b)

\* math.sqrt on a non-negative integer: the largest s with s * s <= x.
RECURSIVE SqrtSearch(_, _, _)
SqrtSearch(x, lo, hi) ==
  IF hi - lo <= 1 THEN lo
  ELSE LET mid == (lo + hi) \div 2
       IN IF mid * mid <= x THEN SqrtSearch(x, mid, hi)
          ELSE SqrtSearch(x, lo, mid)

ISqrt(x) == SqrtSearch(x, 0, 46341)

\* math.cos of x (units of 1/Fix, 0 <= x <= pi/2): the power series to x^8.
Cos(x) ==
  LET x2 == RDiv(x * x, Fix)
      x4 == RDiv(x2 * x2, Fix)
      x6 == RDiv(x4 * x2, Fix)
      x8 == RDiv(x4 * x4, Fix)
  IN Fix - RDiv(x2, 2) + RDiv(x4, 24) - RDiv(x6, 720) + RDiv(x8, 40320)

\* math.acos of r (0 <= r <= Fix): the angle in [0, pi/2] whose cosine is
\* nearest r, found by bisection on the decreasing Cos.
RECURSIVE AcosSearch(_, _, _)
AcosSearch(r, lo, hi) ==
  IF hi - lo <= 1
  THEN IF Abs(Cos(lo) - r) <= Abs(Cos(hi) - r) THEN lo ELSE hi
  ELSE LET mid == (lo + hi) \div 2
       IN IF Cos(mid) >= r THEN AcosSearch(r, mid, hi)
          ELSE AcosSearch(r, lo, mid)

Acos(r) == AcosSearch(r, 0, Pi \div 2)

\* scipy.stats.norm.cdf at multiples of 0.125 from 0 to 4, in units of 1/Fix.
CdfStep == Fix \div 8
CdfTable ==
  << 600, 660, 718, 775, 830, 881, 928, 971, 1010, 1044, 1073, 1099, 1120,
     1138, 1152, 1164, 1173, 1180, 1185, 1189, 1193, 1195, 1196, 1198, 1198,
     1199, 1199, 1200, 1200, 1200, 1200, 1200, 1200 >>

\* The table, linearly interpolated, for z >= 0 (units of 1/Fix).
CdfPos(zv) ==
  LET i == zv \div CdfStep
      t == zv % CdfStep
  IN IF i + 1 >= Len(CdfTable) THEN Fix
     ELSE CdfTable[i + 1]
          + RDiv((CdfTable[i + 2] - CdfTable[i + 1]) * t, CdfStep)

\* norm.cdf(z): P(Z <= z).
norm_cdf(z) ==
  IF IsNaN(z) THEN NaN
  ELSE IF IsInf(z) THEN Num(IF z.v > 0 THEN Fix ELSE 0)
  ELSE IF z.v >= 0 THEN Num(CdfPos(z.v))
  ELSE Num(Fix - CdfPos(-z.v))

\* norm.sf(z): P(Z >= z), the upper tail.
norm_sf(z) ==
  IF IsNaN(z) THEN NaN
  ELSE IF IsInf(z) THEN Num(IF z.v > 0 THEN 0 ELSE Fix)
  ELSE IF z.v >= 0 THEN Num(Fix - CdfPos(z.v))
  ELSE Num(CdfPos(-z.v))

\* Python's min on two floats that are both NaN or both numbers.
FMin(a, b) ==
  IF IsNaN(a) \/ IsNaN(b) THEN NaN
  ELSE IF b.v < a.v THEN b ELSE a

--------------------------------------------------------------------------
(* Strings: a string is the sequence of its characters. *)

Upper == << "A", "B", "C", "D", "E", "F", "G", "H", "I", "J", "K", "L", "M",
            "N", "O", "P", "Q", "R", "S", "T", "U", "V", "W", "X", "Y", "Z" >>
Lower == << "a", "b", "c", "d", "e", "f", "g", "h", "i", "j", "k", "l", "m",
            "n", "o", "p", "q", "r", "s", "t", "u", "v", "w", "x", "y", "z" >>

FoldChar(ch) ==
  IF \E i \in 1..Len(Upper) : Upper[i] = ch
  THEN Lower[CHOOSE i \in 1..Len(Upper) : Upper[i] = ch]
  ELSE ch

\* str.casefold
casefold(s) == [i \in 1..Len(s) |-> FoldChar(s[i])]

TwoSided == << "t", "w", "o", "-", "s", "i", "d", "e", "d" >>
Greater == << "g", "r", "e", "a", "t", "e", "r" >>
Less == << "l", "e", "s", "s" >>

--------------------------------------------------------------------------
(* _get_sd_diff_ML_null.  With theta = n2 / n1 and p1_ml, p2_ml, delta in  *)
(* units of 1/Grid, the coefficients are integers over common denominators: *)
(*   a = aN / n1,  b = bN / (n1 Grid),  c = cN / (n1 Grid^2),               *)
(*   d = dN / Grid^3,  v = vN / (54 aN^3 Grid^3),                           *)
(*   b^2/(9a^2) - c/(3a) = qN / (9 aN^2 Grid^2).                            *)
(* These are computed exactly, so v is 0 wherever it is 0 as a real number  *)
(* (the three roots of the cubic evenly spaced); in double precision v is   *)
(* then 0.0 (p1_ml = p2_ml = 0.5, n1 = n2, delta = 0) or rounding noise.    *)
(* The square root, acos and cos are rounded to the units stated.           *)

aN(n1, n2) == n1 + n2

bN(n1, n2, p1, p2, dl) ==
  -((n1 + n2) * Grid + n1 * p1 + n2 * p2 + dl * (n2 + 2 * n1))

cN(n1, n2, p1, p2, dl) ==
  dl * dl * n1 + dl * (2 * p1 * n1 + (n1 + n2) * Grid)
  + (n1 * p1 + n2 * p2) * Grid

dN(p1, dl) == -p1 * dl * (Grid + dl)

vN(n1, n2, p1, p2, dl) ==
  LET a == aN(n1, n2)
      b == bN(n1, n2, p1, p2, dl)
      c == cN(n1, n2, p1, p2, dl)
      d == dN(p1, dl)
  IN 2 * b * b * b - 9 * a * b * c + 27 * a * a * n1 * d

qN(n1, n2, p1, p2, dl) ==
  LET a == aN(n1, n2)
      b == bN(n1, n2, p1, p2, dl)
      c == cN(n1, n2, p1, p2, dl)
  IN b * b - 3 * a * c

\* u = np.sign(v) * sqrt(b^2/(9a^2) - c/(3a)), as u * 96 aN Grid
\* (the square root to 1/32); 0 exactly when u is 0.0.
u(n1, n2, p1, p2, dl) ==
  LET q == qN(n1, n2, p1, p2, dl)
  IN Sign(vN(n1, n2, p1, p2, dl)) * ISqrt(1024 * q)

\* v / pow(u, 3) = |vN| / (2 qN^(3/2)), in units of 1/Fix, for u # 0.
acos_arg(n1, n2, p1, p2, dl) ==
  LET q == qN(n1, n2, p1, p2, dl)
      x == RDiv(Abs(vN(n1, n2, p1, p2, dl)) * 32, ISqrt(1024 * q))
  IN RDiv(x * Fix, 2 * q)

\* p1_ML_null = 2 * u * cos(w) - b / (3 * a), in units of 1/Fix.
p1_ML_null(n1, n2, p1, p2, dl) ==
  LET w == RDiv(Pi + Acos(acos_arg(n1, n2, p1, p2, dl)), 3)
      twoUcos == RDiv(2 * u(n1, n2, p1, p2, dl) * Cos(w), 32)
  IN RDiv(twoUcos - bN(n1, n2, p1, p2, dl) * Fix, 3 * aN(n1, n2) * Grid)

_get_sd_diff_ML_null(n1, n2, p1_ml, p2_ml, delta) ==
  IF n1 = 0 THEN Raise("ZeroDivisionError")
  ELSE IF IsNaN(p1_ml) \/ IsNaN(p2_ml) THEN NaN
  ELSE LET p1 == p1_ml.v
           p2 == p2_ml.v
           dl == delta.v
       IN IF qN(n1, n2, p1, p2, dl) < 0 THEN Raise("ValueError")
          ELSE IF u(n1, n2, p1, p2, dl) = 0
          THEN IF vN(n1, n2, p1, p2, dl) = 0 THEN NaN
               ELSE Raise("ValueError")
          ELSE IF acos_arg(n1, n2, p1, p2, dl) > Fix THEN Raise("ValueError")
          ELSE LET p1n == p1_ML_null(n1, n2, p1, p2, dl)
                   p2n == p1n - dl * GridToFix
                   var == RDiv(p1n * (Fix - p1n), n1)
                          + RDiv(p2n * (Fix - p2n), n2)
               IN IF var < 0 THEN Raise("ValueError")
                  ELSE Num(ISqrt(var))

--------------------------------------------------------------------------
(* _get_z, _get_ci *)

\* (diff_ml - delta) / sd_diff, numpy float64 division: x/0 is inf or NaN.
_get_z(diff_ml, delta, sd_diff) ==
  IF IsNaN(diff_ml) \/ IsNaN(delta) \/ IsNaN(sd_diff) THEN NaN
  ELSE LET num == diff_ml.v - delta.v
       IN IF sd_diff.v = 0
          THEN IF num = 0 THEN NaN ELSE Inf(Sign(num))
          ELSE Num(RDiv(num * GridToFix * Fix, sd_diff.v))

\* 2 * min(norm.sf(z), norm.cdf(z))
two_sided_p(z) ==
  LET m == FMin(norm_sf(z), norm_cdf(z))
  IN IF IsNaN(m) THEN NaN ELSE Num(2 * m.v)

_get_ci(delta, diff_ml, sd_diff, alpha_mod) ==
  LET p == two_sided_p(_get_z(diff_ml, delta, sd_diff))
  IN IF IsNaN(p) THEN NaN ELSE Num(p.v - alpha_mod.v)

--------------------------------------------------------------------------
(* scipy.optimize.brentq(_get_ci, a, b, args): a bracketing root-finder on  *)
(* the candidate grid.  It evaluates f(a), f(b), raises ValueError when a   *)
(* function value is NaN or when f(a) and f(b) have the same sign, and      *)
(* otherwise halves the bracket, keeping the sign change inside, until the  *)
(* bracket is one grid step wide.  Each evaluation is recorded as a probe:  *)
(* the candidate and the sd_diff that _get_ci was given for it.             *)

Probe(x, args) == [delta |-> x, sd_diff |-> args[2]]
Found(r, ps) == [res |-> r, probes |-> ps]

RECURSIVE brentq_iter(_, _, _, _, _, _)
brentq_iter(xpre, xcur, fpre, fcur, args, ps) ==
  IF Abs(xcur - xpre) <= 1
  THEN Found(Num(IF Abs(fpre) < Abs(fcur) THEN xpre ELSE xcur), ps)
  ELSE LET mid == (xpre + xcur) \div 2
           fmid == _get_ci(Num(mid), args[1], args[2], args[3])
           seen == ps \cup {Probe(mid, args)}
       IN IF IsNaN(fmid) THEN Found(Raise("ValueError"), seen)
          ELSE IF fmid.v = 0 THEN Found(Num(mid), seen)
          ELSE IF Sign(fmid.v) = Sign(fpre)
          THEN brentq_iter(mid, xcur, fmid.v, fcur, args, seen)
          ELSE brentq_iter(xpre, mid, fpre, fmid.v, args, seen)

\* brentq without the check that f(a) and f(b) differ in sign.
brentq_no_sign_check(a, b, args) ==
  LET fa == _get_ci(a, args[1], args[2], args[3])
      fb == _get_ci(b, args[1], args[2], args[3])
      pa == {Probe(a.v, args)}
      pb == pa \cup {Probe(b.v, args)}
  IN IF IsNaN(fa) THEN Found(Raise("ValueError"), pa)
     ELSE IF IsNaN(fb) THEN Found(Raise("ValueError"), pb)
     ELSE IF fa.v = 0 THEN Found(a, pb)
     ELSE IF fb.v = 0 THEN Found(b, pb)
     ELSE brentq_iter(a.v, b.v, fa.v, fb.v, args, pb)

\* brentq that does not reject a NaN function value: NaN compares false
\* with everything, so the search ends at the endpoint it started from.
brentq_nan_unchecked(a, b, args) ==
  LET fa == _get_ci(a, args[1], args[2], args[3])
      fb == _get_ci(b, args[1], args[2], args[3])
      pa == {Probe(a.v, args)}
      pb == pa \cup {Probe(b.v, args)}
  IN IF IsNaN(fa) \/ IsNaN(fb) THEN Found(Num(a.v), pb)
     ELSE IF fa.v = 0 THEN Found(a, pb)
     ELSE IF fb.v = 0 THEN Found(b, pb)
     ELSE IF Sign(fa.v) = Sign(fb.v) THEN Found(Raise("ValueError"), pb)
     ELSE brentq_iter(a.v, b.v, fa.v, fb.v, args, pb)

brentq(a, b, args) ==
  LET fa == _get_ci(a, args[1], args[2], args[3])
      fb == _get_ci(b, args[1], args[2], args[3])
      pa == {Probe(a.v, args)}
      pb == pa \cup {Probe(b.v, args)}
  IN IF IsNaN(fa) THEN Found(Raise("ValueError"), pa)
     ELSE IF IsNaN(fb) THEN Found(Raise("ValueError"), pb)
     ELSE IF fa.v = 0 THEN Found(a, pb)
     ELSE IF fb.v = 0 THEN Found(b, pb)
     ELSE IF Sign(fa.v) = Sign(fb.v) THEN Found(Raise("ValueError"), pb)
     ELSE brentq_iter(a.v, b.v, fa.v, fb.v, args, pb)

--------------------------------------------------------------------------
(* farrington_manning, statement by statement *)

\* len(group) and np.mean(group): the mean of an empty list is NaN.
RECURSIVE Sum(_)
Sum(g) == IF g = << >> THEN 0 ELSE Head(g) + Sum(Tail(g))

mean(g) == IF Len(g) = 0 THEN NaN ELSE Num((Sum(g) * Grid) \div Len(g))

FSub(x, y) == IF IsNaN(x) \/ IsNaN(y) THEN NaN ELSE Num(x.v - y.v)

\* The check of alternative left out.
alternative_unchecked(alternative) == TRUE

\* Line 143: the check of alternative.
alternative_ok(alternative) ==
  casefold(alternative) \in {TwoSided, Greater, Less}

\* The p-value branch with the two tails exchanged.
p_value_tails_swapped(alternative, zz) ==
  IF casefold(alternative) = TwoSided THEN two_sided_p(zz)
  ELSE IF casefold(alternative) = Greater THEN norm_cdf(zz)
  ELSE norm_sf(zz)

\* The p-value branch comparing alternative as given, not case-folded.
p_value_case_sensitive(alternative, zz) ==
  IF alternative = TwoSided THEN two_sided_p(zz)
  ELSE IF alternative = Greater THEN norm_sf(zz)
  ELSE norm_cdf(zz)

\* Lines 151-156: the p-value branch.
p_value_of(alternative, zz) ==
  IF casefold(alternative) = TwoSided THEN two_sided_p(zz)
  ELSE IF casefold(alternative) = Greater THEN norm_sf(zz)
  ELSE norm_cdf(zz)

\* The level doubled for one direction only.
alpha_mod_one_direction(alternative, al) ==
  IF casefold(alternative) = Less THEN Num(2 * al.v) ELSE al

\* Line 157.
alpha_mod_of(alternative, al) ==
  IF casefold(alternative) = TwoSided THEN al ELSE Num(2 * al.v)

\* Lines 158-160 and 161-163: the two root searches.
ci_lower_of(diff, sd, am) == brentq(Num(-Grid + Eps), diff, << diff, sd, am >>)
ci_upper_of(diff, sd, am) == brentq(diff, Num(Grid - Eps), << diff, sd, am >>)

NoError == [type |-> "none", by |-> "none"]
Error(t, b) == [type |-> t, by |-> b]
NoResult == [rate_difference |-> Unset, z_statistic |-> Unset,
             p_value |-> Unset, ci |-> << Unset, Unset >>]

\* The inputs of the calls.  A group is k successes followed by failures:
\* len and np.mean, the only uses of a group, do not depend on the order.
Group(k, n) == [i \in 1..n |-> IF i <= k THEN 1 ELSE 0]
Groups == UNION {{Group(k, n) : k \in 0..n} : n \in 0..MaxN}
Deltas == {dl \in (1 - Grid)..(Grid - 1) : dl % 3 = 0 \/ Abs(dl) = Grid - 1}
Alternatives ==
  { TwoSided, << "T", "w", "o", "-", "S", "i", "d", "e", "d" >>,
    Greater, << "G", "R", "E", "A", "T", "E", "R" >>,
    Less, << "L", "e", "s", "s" >>,
    << "b", "o", "g", "u", "s" >> }
Alphas == {Fix \div 20, Fix \div 4, (9 * Fix) \div 20}

VARIABLES group1, group2, delta, alternative, alpha,
          pc, n1, n2, p1_ml, p2_ml, diff_ml, sd_diff_ml_null, z, p_value,
          alpha_mod, ci_lower, ci_upper, probes, error, return_dict

inputs == << group1, group2, delta, alternative, alpha >>
locals == << n1, n2, p1_ml, p2_ml, diff_ml, sd_diff_ml_null, z, p_value,
             alpha_mod, ci_lower, ci_upper >>
vars == << inputs, pc, locals, probes, error, return_dict >>

Init ==
  /\ group1 \in Groups
  /\ group2 \in Groups
  /\ delta \in {Num(dl) : dl \in Deltas}
  /\ alternative \in Alternatives
  /\ alpha \in {Num(al) : al \in Alphas}
  /\ pc = "validate"
  /\ n1 = Unset /\ n2 = Unset /\ p1_ml = Unset /\ p2_ml = Unset
  /\ diff_ml = Unset /\ sd_diff_ml_null = Unset /\ z = Unset
  /\ p_value = Unset /\ alpha_mod = Unset
  /\ ci_lower = Unset /\ ci_upper = Unset
  /\ probes = {}
  /\ error = NoError
  /\ return_dict = NoResult

\* Lines 143-144.
Validate ==
  /\ pc = "validate"
  /\ IF alternative_ok(alternative)
     THEN pc' = "moments" /\ error' = error
     ELSE pc' = "raised" /\ error' = Error("ValueError", "farrington_manning")
  /\ UNCHANGED << inputs, locals, probes, return_dict >>

\* Lines 145-148.
Moments ==
  /\ pc = "moments"
  /\ n1' = Num(Len(group1))
  /\ n2' = Num(Len(group2))
  /\ p1_ml' = mean(group1)
  /\ p2_ml' = mean(group2)
  /\ diff_ml' = FSub(mean(group1), mean(group2))
  /\ pc' = "null_sd"
  /\ UNCHANGED << inputs, sd_diff_ml_null, z, p_value, alpha_mod, ci_lower,
                  ci_upper, probes, error, return_dict >>

\* Line 149.
NullSd ==
  /\ pc = "null_sd"
  /\ LET r == _get_sd_diff_ML_null(n1.v, n2.v, p1_ml, p2_ml, delta)
     IN IF IsRaise(r)
        THEN /\ pc' = "raised"
             /\ error' = Error(r.k, "_get_sd_diff_ML_null")
             /\ sd_diff_ml_null' = sd_diff_ml_null
        ELSE /\ pc' = "statistic"
             /\ error' = error
             /\ sd_diff_ml_null' = r
  /\ UNCHANGED << inputs, n1, n2, p1_ml, p2_ml, diff_ml, z, p_value,
                  alpha_mod, ci_lower, ci_upper, probes, return_dict >>

\* Lines 150-156.
Statistic ==
  /\ pc = "statistic"
  /\ z' = _get_z(diff_ml, delta, sd_diff_ml_null)
  /\ p_value' = p_value_of(alternative, _get_z(diff_ml, delta, sd_diff_ml_null))
  /\ pc' = "alpha_mod"
  /\ UNCHANGED << inputs, n1, n2, p1_ml, p2_ml, diff_ml, sd_diff_ml_null,
                  alpha_mod, ci_lower, ci_upper, probes, error, return_dict >>

\* Line 157.
AlphaMod ==
  /\ pc = "alpha_mod"
  /\ alpha_mod' = alpha_mod_of(alternative, alpha)
  /\ pc' = "ci_lower"
  /\ UNCHANGED << inputs, n1, n2, p1_ml, p2_ml, diff_ml, sd_diff_ml_null, z,
                  p_value, ci_lower, ci_upper, probes, error, return_dict >>

\* Lines 158-160.
CiLower ==
  /\ pc = "ci_lower"
  /\ LET r == ci_lower_of(diff_ml, sd_diff_ml_null, alpha_mod)
     IN /\ probes' = probes \cup r.probes
        /\ IF IsRaise(r.res)
           THEN /\ pc' = "raised"
                /\ error' = Error(r.res.k, "brentq")
                /\ ci_lower' = ci_lower
           ELSE /\ pc' = "ci_upper"
                /\ error' = error
                /\ ci_lower' = r.res
  /\ UNCHANGED << inputs, n1, n2, p1_ml, p2_ml, diff_ml, sd_diff_ml_null, z,
                  p_value, alpha_mod, ci_upper, return_dict >>

\* Lines 161-163.
CiUpper ==
  /\ pc = "ci_upper"
  /\ LET r == ci_upper_of(diff_ml, sd_diff_ml_null, alpha_mod)
     IN /\ probes' = probes \cup r.probes
        /\ IF IsRaise(r.res)
           THEN /\ pc' = "raised"
                /\ error' = Error(r.res.k, "brentq")
                /\ ci_upper' = ci_upper
           ELSE /\ pc' = "return"
                /\ error' = error
                /\ ci_upper' = r.res
  /\ UNCHANGED << inputs, n1, n2, p1_ml, p2_ml, diff_ml, sd_diff_ml_null, z,
                  p_value, alpha_mod, ci_lower, return_dict >>

\* Lines 164-170.
Return ==
  /\ pc = "return"
  /\ return_dict' = [rate_difference |-> diff_ml, z_statistic |-> z,
                     p_value |-> p_value, ci |-> << ci_lower, ci_upper >>]
  /\ pc' = "returned"
  /\ UNCHANGED << inputs, locals, probes, error >>

Next ==
  \/ Validate
  \/ Moments
  \/ NullSd
  \/ Statistic
  \/ AlphaMod
  \/ CiLower
  \/ CiUpper
  \/ Return

Spec == Init /\ [][Next]_vars

--------------------------------------------------------------------------
(* The whole call as a function of its inputs: what it raises and what it  *)
(* returns.                                                                *)

Outcome(e, r) == [error |-> e, return_dict |-> r]

farrington_manning(g1, g2, dl, alt, al) ==
  IF ~alternative_ok(alt)
  THEN Outcome(Error("ValueError", "farrington_manning"), NoResult)
  ELSE
    LET diff == FSub(mean(g1), mean(g2))
        sd == _get_sd_diff_ML_null(Len(g1), Len(g2), mean(g1), mean(g2), dl)
        zz == _get_z(diff, dl, sd)
        am == alpha_mod_of(alt, al)
        lo == ci_lower_of(diff, sd, am)
        hi == ci_upper_of(diff, sd, am)
    IN IF IsRaise(sd)
       THEN Outcome(Error(sd.k, "_get_sd_diff_ML_null"), NoResult)
       ELSE IF IsRaise(lo.res)
       THEN Outcome(Error(lo.res.k, "brentq"), NoResult)
       ELSE IF IsRaise(hi.res)
       THEN Outcome(Error(hi.res.k, "brentq"), NoResult)
       ELSE Outcome(NoError,
                    [rate_difference |-> diff, z_statistic |-> zz,
                     p_value |-> p_value_of(alt, zz),
                     ci |-> << lo.res, hi.res >>])

--------------------------------------------------------------------------
(* Properties *)

Folded == casefold(alternative)
Recognised == Folded \in {TwoSided, Greater, Less}
Finished == pc \in {"returned", "raised"}

\* Non-empty 0/1 groups, delta in (-1, 1), a recognised alternative and
\* alpha in (0, 0.5).
ValidInputs ==
  /\ group1 # << >> /\ group2 # << >>
  /\ \A i \in 1..Len(group1) : group1[i] \in {0, 1}
  /\ \A i \in 1..Len(group2) : group2[i] \in {0, 1}
  /\ -Grid < delta.v /\ delta.v < Grid
  /\ Recognised
  /\ 0 < alpha.v /\ 2 * alpha.v < Fix

\* The target function of the two root searches, as the call evaluates it.
f(x) == _get_ci(Num(x), diff_ml, sd_diff_ml_null, alpha_mod)

SameSign(x, y) == IsNum(x) /\ IsNum(y) /\ Sign(x.v) * Sign(y.v) > 0
OppositeSign(x, y) == IsNum(x) /\ IsNum(y) /\ Sign(x.v) * Sign(y.v) < 0

\* f does not change sign across the lower / the upper bracket.
LowerNoSignChange ==
  /\ alpha_mod # Unset /\ IsNum(diff_ml)
  /\ SameSign(f(-Grid + Eps), f(diff_ml.v))
UpperNoSignChange ==
  /\ alpha_mod # Unset /\ IsNum(diff_ml)
  /\ SameSign(f(diff_ml.v), f(Grid - Eps))

\* x is a root of f to the resolution of the candidate grid: f is zero at
\* x or changes sign between x and a neighbouring candidate.
SignChangeRoot(x) ==
  /\ IsNum(x) /\ IsNum(f(x.v))
  /\ \/ f(x.v).v = 0
     \/ OppositeSign(f(x.v), f(x.v - 1))
     \/ OppositeSign(f(x.v), f(x.v + 1))

\* C1: every candidate delta the root-finder probes is evaluated with the
\* null standard error recomputed by _get_sd_diff_ML_null at that candidate.
C1_SdRecomputedAtCandidate ==
  \A pr \in probes :
    pr.sd_diff = _get_sd_diff_ML_null(n1.v, n2.v, p1_ml, p2_ml, Num(pr.delta))

\* C2: a call with an empty group1 or group2 ends with the error raised by
\* the input validation of farrington_manning, and returns no result.
C2_EmptyGroupInvalidInput ==
  (Finished /\ Recognised /\ (group1 = << >> \/ group2 = << >>))
    => /\ pc = "raised"
       /\ error.by = "farrington_manning"
       /\ return_dict = NoResult

\* C3: a call whose case-folded alternative is not one of the three
\* recognised strings fails with the invalid-argument error before any other
\* step has run: no local is assigned, nothing is probed, nothing returned.
C3_InvalidAlternativeFailsFirst ==
  (Folded \notin {TwoSided, Greater, Less})
    => /\ pc \in {"validate", "raised"}
       /\ pc = "raised" => error = Error("ValueError", "farrington_manning")
       /\ \A i \in 1..Len(locals) : locals[i] = Unset
       /\ probes = {}
       /\ return_dict = NoResult

C3_Witness ==
  /\ pc = "raised"
  /\ Folded \notin {TwoSided, Greater, Less}
  /\ error.type = "ValueError"

\* C4: whenever a result is returned, ci[0] <= rate_difference <= ci[1].
C4_CiContainsRateDifference ==
  pc = "returned"
    => /\ return_dict.ci[1].v <= return_dict.rate_difference.v
       /\ return_dict.rate_difference.v <= return_dict.ci[2].v

\* C5: when f does not change sign across the lower or the upper bracket the
\* call raises and returns nothing, and a returned bound is always a
\* sign-change root of f.
C5_NoSignChangeFails ==
  /\ (LowerNoSignChange /\ pc # "ci_lower")
       => pc = "raised" /\ return_dict = NoResult /\ ci_lower = Unset
  /\ (UpperNoSignChange /\ pc \notin {"ci_lower", "ci_upper"})
       => pc = "raised" /\ return_dict = NoResult /\ ci_upper = Unset
  /\ pc = "returned"
       => /\ SignChangeRoot(return_dict.ci[1])
          /\ SignChangeRoot(return_dict.ci[2])

C5_Witness ==
  /\ pc = "raised" /\ error = Error("ValueError", "brentq")
  /\ ValidInputs
  /\ ~LowerNoSignChange /\ UpperNoSignChange
  /\ ci_lower # Unset

\* C6: for valid inputs for which a result is returned, the returned
\* p_value is a number in [0, 1], never NaN.
C6_PValueInUnitInterval ==
  (pc = "returned" /\ ValidInputs)
    => /\ IsNum(return_dict.p_value)
       /\ 0 <= return_dict.p_value.v
       /\ return_dict.p_value.v <= Fix

C6_Witness ==
  /\ pc = "returned" /\ ValidInputs
  /\ 0 < return_dict.p_value.v /\ return_dict.p_value.v < Fix

\* C7: the p_value is selected by the case-folded alternative from the one
\* z: two-sided 2*min(upper tail, lower tail), greater the upper tail, less
\* the lower tail; at that z the greater and the less p-values sum to 1 and
\* the two-sided one is twice the smaller of them.
C7_PValueByAlternative ==
  (p_value # Unset /\ ~IsNaN(z))
    => LET up == norm_sf(z).v
           lw == norm_cdf(z).v
           least == IF up < lw THEN up ELSE lw
       IN /\ z = _get_z(diff_ml, delta, sd_diff_ml_null)
          /\ Folded = TwoSided => p_value = Num(2 * least)
          /\ Folded = Greater => p_value = Num(up)
          /\ Folded = Less => p_value = Num(lw)
          /\ p_value_of(Greater, z).v + p_value_of(Less, z).v = Fix
          /\ p_value_of(TwoSided, z).v
               = 2 * (IF p_value_of(Greater, z).v < p_value_of(Less, z).v
                      THEN p_value_of(Greater, z).v
                      ELSE p_value_of(Less, z).v)

C7_Witness ==
  /\ Folded = Greater /\ IsNum(z) /\ z.v > 0
  /\ IsNum(p_value) /\ 0 < p_value.v /\ 2 * p_value.v < Fix

\* C8: the level of both root searches is alpha for a two-sided alternative
\* and 2*alpha for greater and less, and a call returns the same ci as the
\* call with the opposite one-sided alternative and otherwise equal inputs.
C8_SameLevelBothDirections ==
  /\ alpha_mod # Unset
       => alpha_mod = IF Folded = TwoSided THEN alpha ELSE Num(2 * alpha.v)
  /\ (pc = "returned" /\ Folded \in {Greater, Less})
       => LET other == IF Folded = Greater THEN Less ELSE Greater
              twin == farrington_manning(group1, group2, delta, other, alpha)
          IN /\ twin.error = NoError
             /\ twin.return_dict.ci = return_dict.ci

C8_Witness ==
  /\ pc = "returned" /\ Folded = Less
  /\ alpha_mod = Num(2 * alpha.v)
  /\ return_dict.ci[1] # return_dict.ci[2]

\* C9: a call ends as the call with the lower-case spelling of its
\* alternative ends: the same error or the same result.
C9_CaseInsensitive ==
  Finished
    => Outcome(error, return_dict)
         = farrington_manning(group1, group2, delta, Folded, alpha)

C9_Witness ==
  /\ pc = "returned"
  /\ alternative # Folded
  /\ Folded = Greater

\* C10: for every valid parameter set the solver's u is non-zero.
C10_UNonZero ==
  (sd_diff_ml_null # Unset /\ n1.v >= 1 /\ n2.v >= 1)
    => u(n1.v, n2.v, p1_ml.v, p2_ml.v, delta.v) # 0

==========================================================================
